---- MODULE Spec2Model ----
(***************************************************************************)
(* Model of backend/word_graph.py: the module initialisation that resolves *)
(* the Gemini credential, and the handler generate_word_graph of           *)
(* POST /api/word-graph/generate.                                          *)
(*                                                                         *)
(* Strings are TLA+ strings; the empty string stands for an unset          *)
(* environment variable (os.getenv gives None, and the code only tests     *)
(* "not api_key", which is true of None and of '').  A Python dict is a    *)
(* function whose DOMAIN is the set of keys present.  An f-string is a     *)
(* tuple of its literal parts and interpolated values.  The reply of the   *)
(* generation collaborator is a sequence of lexical tokens:                *)
(*   "{"  "}"   a brace                                                    *)
(*   "W"        the member  "words": <value>                               *)
(*   "N"        the member  "notwords": []                                 *)
(*   "p"        brace-free prose                                           *)
(***************************************************************************)
EXTENDS Integers, Sequences, FiniteSets, TLC

VARIABLES
    pc,             \* position of the process: module import, idle, or a handler stage
    startEnv,       \* the environment the process was started with (never changes)
    environ,        \* os.environ
    api_key,        \* module-level api_key handed to genai.configure
    data,           \* request.get_json()
    topic,          \* local topic
    num_words,      \* local num_words
    prompt,         \* local prompt
    calls,          \* prompts handed to model.generate_content during this request
    response,       \* the collaborator's reply
    json_string,    \* json_match.group()
    words_data,     \* json.loads(json_string)
    words,          \* words_data['words']
    term_to_index,  \* dict of lowercased term -> index
    correlations,   \* list of correlations
    i,              \* outer loop variable of the correlation loop (1-based here)
    result          \* what the handler returns: status and JSON body

vars == <<pc, startEnv, environ, api_key, data, topic, num_words, prompt, calls,
          response, json_string, words_data, words, term_to_index, correlations,
          i, result>>

(***************************************************************************)
(* Bounds of the model.                                                    *)
(***************************************************************************)
\* tokens in a collaborator reply handled by the whole-handler specification
ReplyLen == 3
\* strings (terms and related concepts) in a reply decoded by the whole handler
ReplySize == 2
\* tokens in a reply handed to the response parser on its own
MaxText == 5
\* strings (terms and related concepts) in the entries handed to correlation inference
MaxSize == 5

(***************************************************************************)
(* Small value sets the inputs are drawn from.                             *)
(***************************************************************************)
Keys == {"k1", "k2"}
EnvValues == {""} \cup Keys
Topics == {"Art"}
Counts == {3}
Terms == {"A", "a", "B"}
Concepts == {"A", "b", "C"}
Tokens == {"{", "}", "W", "N", "p"}

\* str.lower()
Lower(s) ==
    CASE s = "A" -> "a"
      [] s = "B" -> "b"
      [] s = "C" -> "c"
      [] OTHER   -> s

\* dict.get(key, default)
Get(d, key, default) == IF key \in DOMAIN d THEN d[key] ELSE default

Min(S) == CHOOSE m \in S : \A n \in S : m <= n
Max(S) == CHOOSE m \in S : \A n \in S : n <= m

(***************************************************************************)
(* Requests, replies and decoded entries.                                  *)
(***************************************************************************)
\* What request.get_json() finds: no JSON object at all (empty or non-JSON
\* body: None or an HTTP error, either way an exception inside the try), or
\* a dict with any of the two keys.
NoBody == [object |-> FALSE, dict |-> <<>>]
JsonBody(d) == [object |-> TRUE, dict |-> d]
Bodies ==
    {NoBody, JsonBody(<<>>), JsonBody([topic |-> "Technology", num_words |-> 5])}
    \cup {JsonBody([topic |-> t]) : t \in Topics}
    \cup {JsonBody([topic |-> t, num_words |-> n]) : t \in Topics, n \in Counts}

Texts(n) == UNION {[1..k -> Tokens] : k \in 1..n}
\* model.generate_content raises, returns an empty text, or returns a text
Raised == [ok |-> FALSE, text |-> <<>>]
Replies(n) == {Raised} \cup {[ok |-> TRUE, text |-> t] : t \in Texts(n) \cup {<<>>}}

EntryKeys == {"term", "summary", "description", "related_concepts", "examples"}
Entry(t, rc) ==
    [term |-> t, summary |-> "s", description |-> "d",
     related_concepts |-> rc, examples |-> <<"e">>]
EntriesOf(k) == {Entry(t, rc) : t \in Terms, rc \in [1..k -> Concepts]}
\* every list of complete entries holding at most b strings
RECURSIVE WordLists(_)
WordLists(b) ==
    {<<>>} \cup
    UNION {{<<e>> \o r : e \in EntriesOf(k), r \in WordLists(b - 1 - k)} : k \in 0..(b - 1)}
\* the same lists with one key of one entry missing
Without(e, key) == [k \in (DOMAIN e) \ {key} |-> e[k]]
Damaged(w) ==
    {[w EXCEPT ![n] = Without(w[n], key)] :
        n \in 1..Len(w), key \in {"term", "related_concepts", "summary"}}
\* the values "words" can decode to: a JSON number, or a list of entries
NotAList == [list |-> FALSE, items |-> <<>>]
AList(w) == [list |-> TRUE, items |-> w]
WordsValues(b) ==
    {NotAList} \cup {AList(w) : w \in WordLists(b) \cup UNION {Damaged(w) : w \in WordLists(b)}}

(***************************************************************************)
(* Module initialisation, lines 12-24.                                     *)
(***************************************************************************)
\* ResolveKey that forgets line 19
ResolveKeyNoCopy(env) ==
    LET primary == env["GOOGLE_API_KEY"]
        secondary == env["GEMINI_API_KEY"]
    IN  [api_key |-> IF primary # "" THEN primary ELSE secondary, environ |-> env]

\* lines 12-23: the key handed to genai.configure and os.environ afterwards
ResolveKey(env) ==
    LET primary == env["GOOGLE_API_KEY"]
        secondary == env["GEMINI_API_KEY"]
    IN  IF primary # ""
        THEN [api_key |-> primary, environ |-> env]
        ELSE IF secondary # ""
             THEN [api_key |-> secondary,
                   environ |-> [env EXCEPT !["GOOGLE_API_KEY"] = secondary]]
             ELSE [api_key |-> "", environ |-> env]

(***************************************************************************)
(* Pure parts of generate_word_graph.                                      *)
(***************************************************************************)
\* KeyAvailable without the test of line 37
KeyAvailableAlways(env) == TRUE

\* lines 36-38
KeyAvailable(env) == env["GOOGLE_API_KEY"] # ""

\* lines 45-63; the fixed rest of the template is left out
Prompt(n, t) == <<"Generate ", n, " key concepts or terms related to ", t, ".">>

\* RegexSearch with the lazy pattern \{.*?\}
RegexSearchLazy(text) ==
    LET starts == {s \in 1..Len(text) :
                      /\ text[s] = "{"
                      /\ \E e \in (s + 1)..Len(text) : text[e] = "}"}
    IN  IF starts = {}
        THEN [found |-> FALSE, group |-> <<>>]
        ELSE LET s == Min(starts)
                 e == Min({n \in (s + 1)..Len(text) : text[n] = "}"})
             IN  [found |-> TRUE, group |-> SubSeq(text, s, e)]

\* line 77: re.search(r'\{.*\}', text, re.DOTALL): the leftmost position
\* where the pattern matches, and there the longest match
RegexSearch(text) ==
    LET starts == {s \in 1..Len(text) :
                      /\ text[s] = "{"
                      /\ \E e \in (s + 1)..Len(text) : text[e] = "}"}
    IN  IF starts = {}
        THEN [found |-> FALSE, group |-> <<>>]
        ELSE LET s == Min(starts)
                 e == Max({n \in (s + 1)..Len(text) : text[n] = "}"})
             IN  [found |-> TRUE, group |-> SubSeq(text, s, e)]

\* line 84: json.loads on a token sequence; the only JSON texts over the
\* tokens are the objects with no member or one member
JsonLoads(s) ==
    IF s = <<"{", "}">> THEN [ok |-> TRUE, keys |-> {}]
    ELSE IF s = <<"{", "W", "}">> THEN [ok |-> TRUE, keys |-> {"words"}]
    ELSE IF s = <<"{", "N", "}">> THEN [ok |-> TRUE, keys |-> {"notwords"}]
    ELSE [ok |-> FALSE, keys |-> {}]

\* line 85: isinstance(words_data, dict) and 'words' in words_data; a JSON
\* text that starts with a brace decodes to a dict
SchemaOk(keys) == "words" \in keys

\* TermToIndex where the first entry with a key wins
TermToIndexFirstWins(ws) ==
    [key \in {Lower(ws[n]["term"]) : n \in 1..Len(ws)} |->
        Min({n \in 1..Len(ws) : Lower(ws[n]["term"]) = key}) - 1]

\* line 95: {word['term'].lower(): i for i, word in enumerate(words)};
\* a later entry overwrites an earlier one with the same key
TermToIndex(ws) ==
    [key \in {Lower(ws[n]["term"]) : n \in 1..Len(ws)} |->
        Max({n \in 1..Len(ws) : Lower(ws[n]["term"]) = key}) - 1]

NodeId(n) == <<"node-", n>>
EdgeId(n) == <<"edge-", n>>
Correlation(src, tgt, who, whom) ==
    [source |-> NodeId(src), target |-> NodeId(tgt),
     explanation |-> <<who, " includes ", whom, " as a related concept">>]

\* ForwardHit without the test of line 107
ForwardHitNoGuard(idx, concept, i0) == Lower(concept) \in DOMAIN idx

\* lines 104-107: the related concept is a node, and not this one
ForwardHit(idx, concept, i0) ==
    /\ Lower(concept) \in DOMAIN idx
    /\ i0 # idx[Lower(concept)]

\* lines 101-112 for entry i0 (0-based), from related concept k on
RECURSIVE ForwardScan(_, _, _, _)
ForwardScan(word1, idx, i0, k) ==
    LET rc == Get(word1, "related_concepts", <<>>)
    IN  IF k > Len(rc) THEN <<>>
        ELSE (IF ForwardHit(idx, rc[k], i0)
              THEN <<Correlation(i0, idx[Lower(rc[k])], word1["term"], rc[k])>>
              ELSE <<>>)
             \o ForwardScan(word1, idx, i0, k + 1)

\* Mentions that compares the strings as written
MentionsExact(word1, word2) ==
    LET rc == Get(word2, "related_concepts", <<>>)
    IN  \E k \in 1..Len(rc) : word1["term"] = rc[k]

\* line 117: any(word1['term'].lower() == related.lower() for related in ...)
Mentions(word1, word2) ==
    LET rc == Get(word2, "related_concepts", <<>>)
    IN  \E k \in 1..Len(rc) : Lower(word1["term"]) = Lower(rc[k])

\* ReverseScan with source and target exchanged
RECURSIVE ReverseScanSwapped(_, _, _)
ReverseScanSwapped(ws, i0, j0) ==
    IF j0 >= Len(ws) THEN <<>>
    ELSE (IF i0 # j0 /\ Mentions(ws[i0 + 1], ws[j0 + 1])
          THEN <<Correlation(i0, j0, ws[j0 + 1]["term"], ws[i0 + 1]["term"])>>
          ELSE <<>>)
         \o ReverseScanSwapped(ws, i0, j0 + 1)

\* lines 115-122 for entry i0 (0-based), from entry j0 (0-based) on
RECURSIVE ReverseScan(_, _, _)
ReverseScan(ws, i0, j0) ==
    IF j0 >= Len(ws) THEN <<>>
    ELSE (IF i0 # j0 /\ Mentions(ws[i0 + 1], ws[j0 + 1])
          THEN <<Correlation(j0, i0, ws[j0 + 1]["term"], ws[i0 + 1]["term"])>>
          ELSE <<>>)
         \o ReverseScan(ws, i0, j0 + 1)

\* Node laid out from x = 250 on
NodeShifted(n, word) ==
    [id |-> NodeId(n),
     data |-> [label |-> word["term"], summary |-> word["summary"],
               description |-> word["description"],
               relatedTopics |-> word["related_concepts"],
               examples |-> word["examples"]],
     position |-> [x |-> (n + 1) * 250, y |-> 0],
     type |-> "wordNode", sourcePosition |-> "right", targetPosition |-> "left"]

\* lines 125-141
Node(n, word) ==
    [id |-> NodeId(n),
     data |-> [label |-> word["term"], summary |-> word["summary"],
               description |-> word["description"],
               relatedTopics |-> word["related_concepts"],
               examples |-> word["examples"]],
     position |-> [x |-> n * 250, y |-> 0],
     type |-> "wordNode", sourcePosition |-> "right", targetPosition |-> "left"]
Nodes(ws) == [n \in 1..Len(ws) |-> Node(n - 1, ws[n])]

\* lines 143-153
Edges(corrs) ==
    [n \in 1..Len(corrs) |->
        [id |-> EdgeId(n - 1), source |-> corrs[n].source, target |-> corrs[n].target,
         animated |-> TRUE, style |-> [stroke |-> "#3b82f6", strokeWidth |-> 2],
         data |-> [explanation |-> corrs[n].explanation]]]

\* lines 155-158
Success(ns, es) == [status |-> 200, body |-> [nodes |-> ns, edges |-> es]]
\* lines 160-162
Failure(message) == [status |-> 500, body |-> [error |-> message]]

(***************************************************************************)
(* The state machine.                                                      *)
(***************************************************************************)
NoResult == [status |-> 0, body |-> <<>>]
NoWordsData == [keys |-> {}, words |-> NotAList]

\* the locals of a handler that has not started
LocalsCleared ==
    /\ data = NoBody /\ topic = "" /\ num_words = 0 /\ prompt = <<>> /\ calls = 0
    /\ response = Raised /\ json_string = <<>> /\ words_data = NoWordsData
    /\ words = <<>> /\ term_to_index = <<>> /\ correlations = <<>> /\ i = 0
    /\ result = NoResult

Environments == [{"GOOGLE_API_KEY", "GEMINI_API_KEY"} -> EnvValues]

Init ==
    /\ pc = "import"
    /\ startEnv \in Environments
    /\ environ = startEnv
    /\ api_key = ""
    /\ LocalsCleared

\* the except clause of lines 160-162 ends the request
Fail(message) ==
    /\ result' = Failure(message)
    /\ pc' = "done"

\* lines 12-24
Import ==
    /\ pc = "import"
    /\ api_key' = ResolveKey(environ).api_key
    /\ environ' = ResolveKey(environ).environ
    /\ pc' = "idle"
    /\ UNCHANGED <<startEnv, data, topic, num_words, prompt, calls, response,
                   json_string, words_data, words, term_to_index, correlations, i,
                   result>>

\* lines 31-33
Receive ==
    /\ pc = "idle"
    /\ \E d \in Bodies :
        /\ data' = d
        /\ IF d.object
           THEN /\ topic' = Get(d.dict, "topic", "Technology")
                /\ num_words' = Get(d.dict, "num_words", 5)
                /\ pc' = "check_key"
                /\ UNCHANGED result
           ELSE /\ Fail("no JSON object in the request body")
                /\ UNCHANGED <<topic, num_words>>
    /\ UNCHANGED <<startEnv, environ, api_key, prompt, calls, response, json_string,
                   words_data, words, term_to_index, correlations, i>>

\* lines 36-38
CheckKey ==
    /\ pc = "check_key"
    /\ IF KeyAvailable(environ)
       THEN pc' = "generate" /\ UNCHANGED result
       ELSE Fail("GOOGLE_API_KEY environment variable not set")
    /\ UNCHANGED <<startEnv, environ, api_key, data, topic, num_words, prompt, calls,
                   response, json_string, words_data, words, term_to_index,
                   correlations, i>>

\* lines 45-72
Generate ==
    /\ pc = "generate"
    /\ prompt' = Prompt(num_words, topic)
    /\ calls' = calls + 1
    /\ \E r \in Replies(ReplyLen) :
        /\ response' = r
        /\ IF r.ok /\ r.text # <<>>
           THEN pc' = "extract" /\ UNCHANGED result
           ELSE Fail(<<"Error calling Gemini API: ",
                       IF r.ok THEN "Empty response from Gemini" ELSE "raised">>)
    /\ UNCHANGED <<startEnv, environ, api_key, data, topic, num_words, json_string,
                   words_data, words, term_to_index, correlations, i>>

\* lines 77-81
Extract ==
    /\ pc = "extract"
    /\ LET json_match == RegexSearch(response.text)
       IN  IF json_match.found
           THEN /\ json_string' = json_match.group
                /\ pc' = "decode"
                /\ UNCHANGED result
           ELSE /\ Fail("Could not find JSON in response")
                /\ UNCHANGED json_string
    /\ UNCHANGED <<startEnv, environ, api_key, data, topic, num_words, prompt, calls,
                   response, words_data, words, term_to_index, correlations, i>>

\* lines 84-92; the value of "words" is the part of the reply that the token
\* "W" stands for
Decode ==
    /\ pc = "decode"
    /\ LET v == JsonLoads(json_string)
       IN  IF ~v.ok
           THEN /\ Fail(<<"Failed to parse JSON: ", json_string>>)
                /\ UNCHANGED <<words_data, words>>
           ELSE IF ~SchemaOk(v.keys)
           THEN /\ words_data' = [keys |-> v.keys, words |-> NotAList]
                /\ Fail("Invalid JSON structure")
                /\ UNCHANGED words
           ELSE \E w \in WordsValues(ReplySize) :
                /\ words_data' = [keys |-> v.keys, words |-> w]
                /\ IF w.list
                   THEN words' = w.items /\ pc' = "index" /\ UNCHANGED result
                   ELSE Fail("object of type 'int' has no len()") /\ UNCHANGED words
    /\ UNCHANGED <<startEnv, environ, api_key, data, topic, num_words, prompt, calls,
                   response, json_string, term_to_index, correlations, i>>

\* lines 95-98
BuildIndex ==
    /\ pc = "index"
    /\ IF \A n \in 1..Len(words) : "term" \in DOMAIN words[n]
       THEN /\ term_to_index' = TermToIndex(words)
            /\ pc' = "forward"
            /\ UNCHANGED result
       ELSE /\ Fail("'term'")
            /\ UNCHANGED term_to_index
    /\ UNCHANGED <<startEnv, environ, api_key, data, topic, num_words, prompt, calls,
                   response, json_string, words_data, words, correlations, i>>

\* lines 99-112: the forward scan of entry i
ForwardPass ==
    /\ pc = "forward"
    /\ i < Len(words)
    /\ correlations' = correlations \o ForwardScan(words[i + 1], term_to_index, i, 1)
    /\ pc' = "reverse"
    /\ UNCHANGED <<startEnv, environ, api_key, data, topic, num_words, prompt, calls,
                   response, json_string, words_data, words, term_to_index, i, result>>

\* lines 114-122: the reverse scan of entry i, and on to the next entry
ReversePass ==
    /\ pc = "reverse"
    /\ correlations' = correlations \o ReverseScan(words, i, 0)
    /\ i' = i + 1
    /\ pc' = "forward"
    /\ UNCHANGED <<startEnv, environ, api_key, data, topic, num_words, prompt, calls,
                   response, json_string, words_data, words, term_to_index, result>>

\* lines 125-158
Assemble ==
    /\ pc = "forward"
    /\ i = Len(words)
    /\ IF \A n \in 1..Len(words) : EntryKeys \subseteq DOMAIN words[n]
       THEN result' = Success(Nodes(words), Edges(correlations))
       ELSE result' = Failure("missing key")
    /\ pc' = "done"
    /\ UNCHANGED <<startEnv, environ, api_key, data, topic, num_words, prompt, calls,
                   response, json_string, words_data, words, term_to_index,
                   correlations, i>>

\* the response is sent; the locals of the request are gone
Finish ==
    /\ pc = "done"
    /\ pc' = "idle"
    /\ data' = NoBody /\ topic' = "" /\ num_words' = 0 /\ prompt' = <<>> /\ calls' = 0
    /\ response' = Raised /\ json_string' = <<>> /\ words_data' = NoWordsData
    /\ words' = <<>> /\ term_to_index' = <<>> /\ correlations' = <<>> /\ i' = 0
    /\ result' = NoResult
    /\ UNCHANGED <<startEnv, environ, api_key>>

Next ==
    \/ Import
    \/ Receive
    \/ CheckKey
    \/ Generate
    \/ Extract
    \/ Decode
    \/ BuildIndex
    \/ ForwardPass
    \/ ReversePass
    \/ Assemble
    \/ Finish

Spec == Init /\ [][Next]_vars

(***************************************************************************)
(* The response parser on its own: a request that has just received a     *)
(* non-empty reply (lines 75-92).                                          *)
(***************************************************************************)
InitParse ==
    /\ pc = "extract"
    /\ startEnv = [GOOGLE_API_KEY |-> "k1", GEMINI_API_KEY |-> ""]
    /\ environ = startEnv
    /\ api_key = "k1"
    /\ data = JsonBody(<<>>) /\ topic = "Technology" /\ num_words = 5
    /\ prompt = Prompt(5, "Technology") /\ calls = 1
    /\ response \in {[ok |-> TRUE, text |-> t] : t \in Texts(MaxText)}
    /\ json_string = <<>> /\ words_data = NoWordsData
    /\ words = <<>> /\ term_to_index = <<>> /\ correlations = <<>> /\ i = 0
    /\ result = NoResult

NextParse ==
    \/ Extract
    \/ Decode

SpecParse == InitParse /\ [][NextParse]_vars

(***************************************************************************)
(* Correlation inference and response assembly on their own: a request     *)
(* whose reply has just been decoded to a list of complete entries          *)
(* (lines 94-158).                                                         *)
(***************************************************************************)
InitGraph ==
    /\ pc = "index"
    /\ startEnv = [GOOGLE_API_KEY |-> "k1", GEMINI_API_KEY |-> ""]
    /\ environ = startEnv
    /\ api_key = "k1"
    /\ data = JsonBody(<<>>) /\ topic = "Technology" /\ num_words = 5
    /\ prompt = Prompt(5, "Technology") /\ calls = 1
    /\ response = [ok |-> TRUE, text |-> <<"{", "W", "}">>]
    /\ json_string = <<"{", "W", "}">>
    /\ words \in WordLists(MaxSize)
    /\ words_data = [keys |-> {"words"}, words |-> AList(words)]
    /\ term_to_index = <<>> /\ correlations = <<>> /\ i = 0
    /\ result = NoResult

NextGraph ==
    \/ BuildIndex
    \/ ForwardPass
    \/ ReversePass
    \/ Assemble

SpecGraph == InitGraph /\ [][NextGraph]_vars

(***************************************************************************)
(* Properties.                                                             *)
(***************************************************************************)
Succeeded == pc = "done" /\ result.status = 200
FailedWith(message) == pc = "done" /\ result = Failure(message)
Related(n) == words[n]["related_concepts"]
\* entry a lists the term of entry b, letter case aside (a, b 1-based)
Lists(a, b) ==
    \E k \in 1..Len(Related(a)) : Lower(Related(a)[k]) = Lower(words[b]["term"])
\* the edges of the payload from entry a to entry b
EdgesFromTo(a, b) ==
    {n \in 1..Len(result.body.edges) :
        /\ result.body.edges[n].source = <<"node-", a - 1>>
        /\ result.body.edges[n].target = <<"node-", b - 1>>}
\* no later entry has the lowercased term of entry b
LastOfItsTerm(b) ==
    \A c \in (b + 1)..Len(words) : Lower(words[c]["term"]) # Lower(words[b]["term"])

\* C1: no edge of a success payload has its source equal to its target,
\* whatever the entries list and whichever terms they share.
C1_NoSelfLoop ==
    Succeeded =>
        \A n \in 1..Len(result.body.edges) :
            result.body.edges[n].source # result.body.edges[n].target
\* a success where an entry lists its own term in another letter case
C1_Witness ==
    /\ Succeeded
    /\ \E a \in 1..Len(words) :
        \E k \in 1..Len(Related(a)) :
            /\ Lower(Related(a)[k]) = Lower(words[a]["term"])
            /\ Related(a)[k] # words[a]["term"]

\* C2: when entry a lists the term of another entry b, letter case aside, the
\* success payload has an edge from node a to node b whose explanation
\* starts with the term of a followed by " includes ".
C2_EdgeCompleteness ==
    Succeeded =>
        \A a, b \in 1..Len(words) :
            (a # b /\ Lists(a, b)) =>
                \E n \in EdgesFromTo(a, b) :
                    /\ result.body.edges[n].data.explanation[1] = words[a]["term"]
                    /\ result.body.edges[n].data.explanation[2] = " includes "
\* a success where an entry lists another entry's term in another letter case
C2_Witness ==
    /\ Succeeded
    /\ \E a, b \in 1..Len(words) :
        /\ a # b
        /\ \E k \in 1..Len(Related(a)) :
            /\ Lower(Related(a)[k]) = Lower(words[b]["term"])
            /\ Related(a)[k] # words[b]["term"]

\* C3: N complete entries give a success payload with exactly N nodes; node n
\* (0-based) has id node-n, x = n * 250, y = 0 and the term of entry n as label.
C3_NodeSynthesis ==
    pc = "done" =>
        /\ result.status = 200
        /\ Len(result.body.nodes) = Len(words)
        /\ \A n \in 1..Len(words) :
            /\ result.body.nodes[n].id = <<"node-", n - 1>>
            /\ result.body.nodes[n].position = [x |-> (n - 1) * 250, y |-> 0]
            /\ result.body.nodes[n].data.label = words[n]["term"]
\* a success with three nodes
C3_Witness == Succeeded /\ Len(words) = 3 /\ Len(result.body.nodes) = 3

\* the stages of a request that has ended, told from what it was given
Opens(text) == {n \in 1..Len(text) : text[n] = "{"}
Closes(text) == {n \in 1..Len(text) : text[n] = "}"}
HasSpan(text) ==
    /\ Opens(text) # {}
    /\ Closes(text) # {}
    /\ Min(Opens(text)) < Max(Closes(text))
CredentialFailed == data.object /\ environ["GOOGLE_API_KEY"] = ""
GenerationFailed == calls = 1 /\ (~response.ok \/ response.text = <<>>)
ExtractionFailed == calls = 1 /\ response.ok /\ response.text # <<>> /\ ~HasSpan(response.text)
DecodeFailed ==
    /\ json_string # <<>>
    /\ json_string \notin {<<"{", "}">>, <<"{", "W", "}">>, <<"{", "N", "}">>}
SchemaFailed == json_string \in {<<"{", "}">>, <<"{", "N", "}">>}
ErrorOnly == result.status = 500 /\ DOMAIN result.body = {"error"}
GraphOnly == result.status = 200 /\ DOMAIN result.body = {"nodes", "edges"}

\* C4: a request ends with a 200 response holding nodes and edges, or with a
\* 500 response holding only an error; when the credential check, the
\* generation call, the extraction, the decode or the schema check failed, it
\* is the 500 response.
C4_NoPartialResults ==
    pc = "done" =>
        /\ GraphOnly \/ ErrorOnly
        /\ ~(GraphOnly /\ ErrorOnly)
        /\ (CredentialFailed \/ GenerationFailed \/ ExtractionFailed
               \/ DecodeFailed \/ SchemaFailed) => ErrorOnly
\* a request whose reply holds {"notwords": []} has ended with the 500 response
C4_Witness ==
    /\ pc = "done"
    /\ json_string = <<"{", "N", "}">>
    /\ result = Failure("Invalid JSON structure")

\* C5: a request with an empty body is handled like one with the body
\* {topic: "Technology", num_words: 5}: with a credential available the prompt
\* for 5 concepts on Technology is built and sent to the collaborator once.
C5_EmptyBodyDefaults ==
    (/\ pc = "done"
     /\ data \in {NoBody, JsonBody(<<>>)}
     /\ environ["GOOGLE_API_KEY"] # "") =>
        /\ calls = 1
        /\ prompt = Prompt(5, "Technology")
        /\ topic = "Technology" /\ num_words = 5

PrimaryOnly(k) == [GOOGLE_API_KEY |-> k, GEMINI_API_KEY |-> ""]
SecondaryOnly(k) == [GOOGLE_API_KEY |-> "", GEMINI_API_KEY |-> k]

\* C6: a process started with only the secondary variable set to k is, from
\* the end of its start-up on, in the state of one started with only the
\* primary variable set to k as far as the handler reads it: the primary slot
\* and the configured key hold k, and every request with a JSON object body
\* passes the credential check and reaches the collaborator.
C6_CredentialFallback ==
    \A k \in Keys :
        (startEnv \in {PrimaryOnly(k), SecondaryOnly(k)} /\ pc # "import") =>
            /\ environ["GOOGLE_API_KEY"] = k
            /\ api_key = k
            /\ (pc = "done" /\ data.object) => calls = 1
\* a process started with only the secondary variable has served a graph
C6_Witness ==
    /\ startEnv = SecondaryOnly("k2")
    /\ Succeeded
    /\ Len(result.body.nodes) > 0

\* C7: when neither variable is set at start, every request fails with the
\* 500 response at the credential check, the collaborator not invoked.
C7_MissingCredential ==
    (/\ pc = "done"
     /\ startEnv = [GOOGLE_API_KEY |-> "", GEMINI_API_KEY |-> ""]) =>
        /\ result = Failure("GOOGLE_API_KEY environment variable not set")
        /\ calls = 0

\* the correlation the reverse scan is to emit from entry a to entry b (1-based)
Includes(a, b) ==
    [source |-> <<"node-", a - 1>>, target |-> <<"node-", b - 1>>,
     explanation |-> <<words[a]["term"], " includes ", words[b]["term"],
                       " as a related concept">>]
\* the m-th smallest member of a set of numbers
Nth(S, m) == CHOOSE x \in S : Cardinality({y \in S : y < x}) = m - 1

\* C8 as stated: when the term of entry b appears, letter case aside, among
\* the related concepts of another entry a, the payload holds a correlation
\* with source node-b, target node-a and explanation "<term_b> includes
\* <term_a> as a related concept".
C8_ReverseScanAsStated ==
    Succeeded =>
        \A a, b \in 1..Len(words) :
            (a # b /\ Lists(a, b)) =>
                \E n \in EdgesFromTo(b, a) :
                    result.body.edges[n].data.explanation = Includes(b, a).explanation

\* C8, amended: the reverse scan of entry a appends, in index order of b, one
\* correlation for every other entry b that lists the term of a among its
\* related concepts, letter case aside, and nothing else; that correlation has
\* source node-b, target node-a and explanation "<term_b> includes <term_a>
\* as a related concept".
C8_ReverseScan ==
    [][pc = "reverse" =>
        LET a == i + 1
            listing == {b \in 1..Len(words) : b # a /\ Lists(b, a)}
            emitted == SubSeq(correlations', Len(correlations) + 1, Len(correlations'))
        IN  /\ Len(correlations') >= Len(correlations)
            /\ SubSeq(correlations', 1, Len(correlations)) = correlations
            /\ Len(emitted) = Cardinality(listing)
            /\ \A m \in 1..Len(emitted) : emitted[m] = Includes(Nth(listing, m), a)
            /\ i' = i + 1]_vars
\* the reverse scan of one entry has emitted two correlations, for two other
\* entries that list its term, one of them in another letter case
C8_Witness ==
    /\ Succeeded
    /\ \E a, b, c \in 1..Len(words) :
        /\ a # b /\ a # c /\ b < c
        /\ Lists(b, a) /\ Lists(c, a)
        /\ \E k \in 1..Len(Related(b)) : Related(b)[k] # words[a]["term"]
        /\ \E m \in 1..(Len(correlations) - 1) :
            /\ correlations[m] = Includes(b, a)
            /\ correlations[m + 1] = Includes(c, a)

\* C9 as stated: whenever entry a lists the term of another entry b, the
\* payload holds at least two edges from node a to node b, also when several
\* entries share a lowercased term.
C9_RedundancyAsStated ==
    Succeeded =>
        \A a, b \in 1..Len(words) :
            (a # b /\ Lists(a, b)) => Cardinality(EdgesFromTo(a, b)) >= 2

\* C9, amended: whenever entry a lists the term of another entry b and no
\* later entry has the lowercased term of b, the payload holds at least two
\* edges from node a to node b (one of the forward scan, one of the reverse
\* scan); when a later entry has the lowercased term of b, the payload holds
\* exactly one edge from node a to node b, that of the reverse scan.
C9_Redundancy ==
    Succeeded =>
        \A a, b \in 1..Len(words) :
            (a # b /\ Lists(a, b)) =>
                IF LastOfItsTerm(b)
                THEN Cardinality(EdgesFromTo(a, b)) >= 2
                ELSE Cardinality(EdgesFromTo(a, b)) = 1
\* a success where an entry lists a term that two other entries share
C9_Witness ==
    /\ Succeeded
    /\ \E a, b, c \in 1..Len(words) :
        /\ a # b /\ a # c /\ b < c
        /\ Lower(words[b]["term"]) = Lower(words[c]["term"])
        /\ Lists(a, b)
        /\ Cardinality(EdgesFromTo(a, b)) = 1
        /\ Cardinality(EdgesFromTo(a, c)) >= 2

\* a JSON object between two stretches of brace-free prose
BraceFree(t) == \A n \in 1..Len(t) : t[n] \notin {"{", "}"}
WrappedObject(text) ==
    \E s \in 1..Len(text) : \E e \in s..Len(text) :
        /\ SubSeq(text, s, e) \in {<<"{", "}">>, <<"{", "W", "}">>, <<"{", "N", "}">>}
        /\ BraceFree(SubSeq(text, 1, s - 1))
        /\ BraceFree(SubSeq(text, e + 1, Len(text)))

\* C10: the span handed to the JSON decoder runs from the first "{" of the
\* reply to its last "}"; a JSON object wrapped in brace-free prose is decoded
\* without a parse error; a reply with no "{" before a "}" fails with the
\* extraction error and nothing is decoded.
C10_GreedyExtraction ==
    pc # "extract" =>
        LET text == response.text
        IN  IF HasSpan(text)
            THEN /\ json_string = SubSeq(text, Min(Opens(text)), Max(Closes(text)))
                 /\ (WrappedObject(text) /\ pc # "decode") =>
                        /\ words_data.keys = JsonLoads(json_string).keys
                        /\ pc = "done" =>
                               result.body.error \in
                                   {"Invalid JSON structure",
                                    "object of type 'int' has no len()"}
            ELSE /\ FailedWith("Could not find JSON in response")
                 /\ json_string = <<>>
                 /\ words_data = NoWordsData
\* the reply "prose {words} prose" has been decoded to a list of entries
C10_Witness ==
    /\ response.text = <<"p", "{", "W", "}", "p">>
    /\ pc = "index"
    /\ json_string = <<"{", "W", "}">>
    /\ words_data.words.list

====
